---- MODULE Spec2Model ----
(***************************************************************************)
(* Model of the training orchestration of kaggle-quickdraw:                *)
(*   - TrainDataProvider (src/dataset.py): the shard prefetch queue fed by *)
(*     a multiprocessing pool;                                             *)
(*   - main (src/train.py): the epoch loop with the best-ever and          *)
(*     per-cycle checkpoints, the SGDR restarts and the early stop.        *)
(***************************************************************************)
EXTENDS Integers, Sequences, FiniteSets, TLC

(* ---------------------------- bounds ----------------------------------- *)
MaxShards == 3
MaxPreload == 2
MaxWorkers == 2
MaxCalls == 4
MaxEpochs == 6
MaxScore == 2

(* ------------------------- provider state ------------------------------ *)
VARIABLES
    num_shards,          \* argument num_shards of TrainDataProvider
    num_shard_preload,   \* argument num_shard_preload
    num_workers,         \* argument num_workers (processes of the pool)
    shards,              \* self.shards: the shuffled shard order
    next_shard_index,    \* self.next_shard_index
    requests,            \* self.requests: list of AsyncResult handles
    cur,                 \* the handle popped by get_next() and waited on
    pcP,                 \* position of the caller inside get_next()
    issued,              \* number of apply_async calls made so far
    calls,               \* number of get_next() calls started so far
    returned,            \* the handles whose data get_next() has returned
    finish_order         \* ids of the loads in the order the workers ended them

pvars == <<num_shards, num_shard_preload, num_workers, shards, next_shard_index,
           requests, cur, pcP, issued, calls, returned, finish_order>>

(* ------------------------- training state ------------------------------ *)
VARIABLES
    epochs_to_train,               \* --epochs
    lr_scheduler_type,             \* --lr_scheduler
    patience,                      \* --patience
    sgdr_cycle_epochs,             \* --sgdr_cycle_epochs
    sgdr_cycle_epochs_mult,        \* --sgdr_cycle_epochs_mult, as <<num, den>>
    sgdr_cycle_end_prolongation,   \* --sgdr_cycle_end_prolongation
    sgdr_cycle_end_patience,       \* --sgdr_cycle_end_patience
    max_sgdr_cycles,               \* --max_sgdr_cycles
    pcT,                           \* position of main inside the epoch loop
    epoch,                         \* the loop variable
    model,                         \* the weights in memory: number of passes trained
    train_len,                     \* len(train_set)
    epoch_iterations,
    val_mapk_avg,
    model_pth,                     \* content of model.pth
    model_files,                   \* content of model-<i>.pth, slot i at index i + 1
    ensemble_model_index,
    global_val_mapk_best_avg,
    sgdr_cycle_val_mapk_best_avg,
    current_sgdr_cycle_epochs,
    sgdr_next_cycle_end_epoch,
    sgdr_iterations,
    sgdr_cycle_count,
    epoch_of_last_improval,
    sgdr_reset,
    best_seen,                     \* highest validation score evaluated so far
    epochs_in_cycle,               \* epochs trained since the start of the cycle
    lr_decay,                      \* --lr_min_decay and --lr_max_decay, as [min, max] of <<num, den>>
    model_type,                    \* --model
    optimizer_type,                \* --optimizer
    loss_type,                     \* --loss
    loss2_type,                    \* --loss2
    loss2_start_sgdr_cycle,        \* --loss2_start_sgdr_cycle
    criterion,                     \* the tag of the loss in use
    opt_lr,                        \* the lr the current optimizer was created with
    sched,                         \* T_max and eta_min of the current CosineAnnealingLR
    lr_trace,                      \* the lr_scheduler.step calls of the last training pass
    base_model_pth,                \* model.pth of --base_model_dir (NoFile without one)
    old_model_files,               \* the model-<i>.pth files present before the loop
    cycle_best_seen,               \* highest validation score evaluated in the current cycle
    train_df,                      \* train_set.df: the shard the training split comes from
    val_df,                        \* val_set.df: the shard the validation split comes from
    eval_df                        \* the shard whose validation split was evaluated last

cfgvars == <<epochs_to_train, lr_scheduler_type, patience, sgdr_cycle_epochs,
             sgdr_cycle_epochs_mult, sgdr_cycle_end_prolongation,
             sgdr_cycle_end_patience, max_sgdr_cycles, lr_decay, model_type,
             optimizer_type, loss_type, loss2_type, loss2_start_sgdr_cycle,
             base_model_pth, old_model_files>>

dfvars == <<train_df, val_df, eval_df>>

optvars == <<criterion, opt_lr, sched, lr_trace>>

tvars == <<cfgvars, pcT, epoch, model, train_len, epoch_iterations, val_mapk_avg,
           model_pth, model_files, ensemble_model_index, global_val_mapk_best_avg,
           sgdr_cycle_val_mapk_best_avg, current_sgdr_cycle_epochs,
           sgdr_next_cycle_end_epoch, sgdr_iterations, sgdr_cycle_count,
           epoch_of_last_improval, sgdr_reset, best_seen, epochs_in_cycle, optvars,
           cycle_best_seen, dfvars>>

(* ------------------ state of the procedures modelled apart -------------- *)
VARIABLES
    ensemble_model_count,   \* load_ensemble_model: argument ensemble_model_count
    candidate_scores,       \* val_mapk_avg of ensemble_model_candidates, in order
    candidates_done,        \* number of candidates the loop has processed
    score_to_model          \* the dict score_to_model: score -> candidate number

evars == <<ensemble_model_count, candidate_scores, candidates_done, score_to_model>>

VARIABLES
    save_path,              \* torch.save: the file written
    save_old,               \* its content before the call
    save_new,               \* the state dict to be written
    save_disk,              \* its content on disk
    save_pc                 \* position of the writer

svars == <<save_path, save_old, save_new, save_disk, save_pc>>

VARIABLES
    data_category,          \* TrainData.__init__: the category column of the shard
    words_to_exclude,       \* the list words_to_exclude
    kept_category,          \* data_category after the exclusion filter
    train_categories,       \* the category column of the training split
    val_categories,         \* the category column of the validation split
    load_pc                 \* position inside TrainData.__init__

fvars == <<data_category, words_to_exclude, kept_category, train_categories,
           val_categories, load_pc>>

VARIABLES
    loader_len,             \* len(train_set_data_loader)
    batch_iterations,       \* --batch_iterations
    pass_no,                \* the training pass (epoch) being run
    next_b,                 \* b: index of the next mini-batch of the pass
    grad,                   \* mini-batches whose gradient is summed in .grad
    steps,                  \* per optimizer.step(): the gradients it applied
    zeroed_at,              \* mini-batches before which zero_grad() ran
    stepped_at              \* mini-batches after which optimizer.step() ran

gvars == <<loader_len, batch_iterations, pass_no, next_b, grad, steps, zeroed_at, stepped_at>>

VARIABLES
    image_size,                     \* --image_size
    use_progressive_image_sizes,    \* --use_progressive_image_sizes
    progressive_image_size_min,     \* --progressive_image_size_min
    progressive_image_size_step,    \* --progressive_image_size_step
    progressive_image_epoch_step,   \* --progressive_image_epoch_step
    image_epoch,                    \* the loop variable epoch
    train_image_size,               \* train_set.image_size
    val_image_size,                 \* val_set.image_size
    image_pc                        \* position inside the loop body

ivars == <<image_size, use_progressive_image_sizes, progressive_image_size_min,
           progressive_image_size_step, progressive_image_epoch_step, image_epoch,
           train_image_size, val_image_size, image_pc>>

xvars == <<evars, svars, fvars, gvars, ivars>>

vars == <<pvars, tvars, xvars>>

NoReq == [id |-> 0, shard |-> -1, st |-> "none"]

Range(s) == {s[i] : i \in 1..Len(s)}

\* np.random.shuffle(list(range(n))): any permutation of 0..n-1
Shuffles(n) == {s \in [1..n -> 0..(n - 1)] : Range(s) = 0..(n - 1)}

\* request_data with the index left where it was (the order never advances)
RequestData_NoAdvance(order, reqs, idx, n) ==
    [requests |-> Append(reqs, [id |-> n + 1, shard |-> order[idx + 1], st |-> "queued"]),
     next_shard_index |-> idx,
     issued |-> n + 1]

\* request_data placing two requests per call
RequestData_Twice(order, reqs, idx, n) ==
    [requests |-> reqs \o <<[id |-> n + 1, shard |-> order[idx + 1], st |-> "queued"],
                            [id |-> n + 2, shard |-> order[((idx + 1) % Len(order)) + 1], st |-> "queued"]>>,
     next_shard_index |-> (idx + 2) % Len(order),
     issued |-> n + 2]

\* request_data: append the handle of an asynchronous load of
\* shards[next_shard_index], advance the index cyclically
RequestData(order, reqs, idx, n) ==
    [requests |-> Append(reqs, [id |-> n + 1, shard |-> order[idx + 1], st |-> "queued"]),
     next_shard_index |-> (idx + 1) % Len(order),
     issued |-> n + 1]

\* the loop `for _ in range(num_shard_preload): self.request_data()`
RECURSIVE Preload(_, _)
Preload(order, k) ==
    IF k = 0
    THEN [requests |-> <<>>, next_shard_index |-> 0, issued |-> 0]
    ELSE LET p == Preload(order, k - 1)
         IN RequestData(order, p.requests, p.next_shard_index, p.issued)

\* TrainDataProvider.__init__
ProviderInit ==
    /\ num_shards \in 1..MaxShards
    /\ num_shard_preload \in 0..MaxPreload
    /\ num_workers \in 1..MaxWorkers
    /\ shards \in Shuffles(num_shards)
    /\ LET p == Preload(shards, num_shard_preload)
       IN /\ requests = p.requests
          /\ next_shard_index = p.next_shard_index
          /\ issued = p.issued
    /\ cur = NoReq
    /\ pcP = "idle"
    /\ calls = 0
    /\ returned = <<>>
    /\ finish_order = <<>>

\* every handle the caller has not consumed yet, oldest first
Outstanding == IF cur = NoReq THEN requests ELSE <<cur>> \o requests

\* get_next, first statement: self.request_data()
GetNextRequest ==
    /\ pcP = "idle"
    /\ calls < MaxCalls
    /\ LET r == RequestData(shards, requests, next_shard_index, issued)
       IN /\ requests' = r.requests
          /\ next_shard_index' = r.next_shard_index
          /\ issued' = r.issued
    /\ calls' = calls + 1
    /\ pcP' = "requested"
    /\ UNCHANGED <<num_shards, num_shard_preload, num_workers, shards, cur,
                   returned, finish_order>>
    /\ UNCHANGED <<tvars, xvars>>

\* a pop that leaves the handle in the list
PopRequest_Keep(reqs) == [head |-> Head(reqs), rest |-> reqs]

\* a pop that prefers a handle whose result is ready
PopRequest_AnyReady(reqs) ==
    IF \E i \in 1..Len(reqs) : reqs[i].st = "done"
    THEN LET i == CHOOSE j \in 1..Len(reqs) :
                     /\ reqs[j].st = "done"
                     /\ \A k \in 1..Len(reqs) : reqs[k].st = "done" => reqs[j].id >= reqs[k].id
         IN [head |-> reqs[i],
             rest |-> SubSeq(reqs, 1, i - 1) \o SubSeq(reqs, i + 1, Len(reqs))]
    ELSE [head |-> Head(reqs), rest |-> Tail(reqs)]

\* self.requests.pop(0)
PopRequest(reqs) == [head |-> Head(reqs), rest |-> Tail(reqs)]

\* get_next: self.requests.pop(0), then the caller blocks in .get()
GetNextPop ==
    /\ pcP = "requested"
    /\ LET p == PopRequest(requests)
       IN /\ cur' = p.head
          /\ requests' = p.rest
    /\ pcP' = "waiting"
    /\ UNCHANGED <<num_shards, num_shard_preload, num_workers, shards,
                   next_shard_index, issued, calls, returned, finish_order>>
    /\ UNCHANGED <<tvars, xvars>>

\* AsyncResult.get() of a successful load: get_next returns the data
GetNextReturn ==
    /\ pcP = "waiting"
    /\ cur.st = "done"
    /\ returned' = Append(returned, cur)
    /\ cur' = NoReq
    /\ pcP' = "idle"
    /\ UNCHANGED <<num_shards, num_shard_preload, num_workers, shards,
                   next_shard_index, requests, issued, calls, finish_order>>
    /\ UNCHANGED <<tvars, xvars>>

\* what get_next does with the handle of a failed load: a variant that
\* asks for the shard again and keeps waiting
OnFailure_Retry(reqs, n, h) ==
    [requests |-> reqs,
     cur |-> [id |-> n + 1, shard |-> h.shard, st |-> "queued"],
     issued |-> n + 1,
     pc |-> "waiting"]

\* AsyncResult.get() of a failed load re-raises the worker's exception in the
\* caller; get_next has no handler, nothing is requested again
OnFailure(reqs, n, h) ==
    [requests |-> reqs, cur |-> h, issued |-> n, pc |-> "raised"]

GetNextRaise ==
    /\ pcP = "waiting"
    /\ cur.st = "failed"
    /\ LET f == OnFailure(requests, issued, cur)
       IN /\ requests' = f.requests
          /\ cur' = f.cur
          /\ issued' = f.issued
          /\ pcP' = f.pc
    /\ UNCHANGED <<num_shards, num_shard_preload, num_workers, shards,
                   next_shard_index, calls, returned, finish_order>>
    /\ UNCHANGED <<tvars, xvars>>

NumRunning == Cardinality({i \in 1..Len(Outstanding) : Outstanding[i].st = "running"})

SetStatus(h, id, st) == IF h.id = id THEN [h EXCEPT !.st = st] ELSE h

SetAll(id, st) ==
    /\ requests' = [i \in 1..Len(requests) |-> SetStatus(requests[i], id, st)]
    /\ cur' = SetStatus(cur, id, st)

\* a pool that keeps one of its processes back
PoolHasFreeProcess_Spare(running, workers) == running + 1 < workers

\* mp.Pool(processes=num_workers): a process is free while fewer than
\* num_workers loads are running
PoolHasFreeProcess(running, workers) == running < workers

\* a free pool process takes the oldest task of the pool's task queue and
\* starts TrainDataProvider.load_data on it
WorkerStart ==
    /\ PoolHasFreeProcess(NumRunning, num_workers)
    /\ \E i \in 1..Len(Outstanding) :
          /\ Outstanding[i].st = "queued"
          /\ \A j \in 1..(i - 1) : Outstanding[j].st # "queued"
          /\ SetAll(Outstanding[i].id, "running")
    /\ UNCHANGED <<num_shards, num_shard_preload, num_workers, shards,
                   next_shard_index, pcP, issued, calls, returned, finish_order>>
    /\ UNCHANGED <<tvars, xvars>>

\* load_data ends in a pool process: it returns a TrainData or raises
WorkerFinish ==
    /\ \E i \in 1..Len(Outstanding) :
          /\ Outstanding[i].st = "running"
          /\ \E st \in {"done", "failed"} : SetAll(Outstanding[i].id, st)
          /\ finish_order' = Append(finish_order, Outstanding[i].id)
    /\ UNCHANGED <<num_shards, num_shard_preload, num_workers, shards,
                   next_shard_index, pcP, issued, calls, returned>>
    /\ UNCHANGED <<tvars, xvars>>

ProviderNext ==
    \/ GetNextRequest
    \/ GetNextPop
    \/ GetNextReturn
    \/ GetNextRaise
    \/ WorkerStart
    \/ WorkerFinish

(* ------------------------- training loop ------------------------------- *)
\* float("-inf"): below every validation score
NegInf == -1
\* None for an optional integer argument
None == -1
\* validation scores (val_mapk_avg), on an integer scale
Scores == 0..MaxScore


\* --batch_size
batch_size == 2

\* a checkpoint file: the weights it holds (the number of training passes
\* they went through) and the validation score of the epoch that produced them
NoFile == [w |-> -1, s |-> NegInf]
Ckpt(w, s) == [w |-> w, s |-> s]

\* len(train_data.train_set_df["drawing"]) of a shard
TrainSetSize(shard) == (shard % 3) + 1

\* ceil(n / d)
Ceil(n, d) == (n + d - 1) \div d

\* int(x * mult) for x >= 0 and mult = m[1] / m[2] > 0
IntMul(x, m) == (x * m[1]) \div m[2]

\* round(x * mult) as Python rounds: to the nearest integer, a half to the even one
RoundMul(x, m) ==
    LET q == x * m[1]
        f == q \div m[2]
        r == q % m[2]
    IN IF 2 * r < m[2] THEN f
       ELSE IF 2 * r > m[2] THEN f + 1
       ELSE IF f % 2 = 0 THEN f ELSE f + 1

\* the next cycle length rounded instead of truncated
NextCycleEpochs_Round(len, m) == RoundMul(len, m)

\* current_sgdr_cycle_epochs = int(current_sgdr_cycle_epochs * sgdr_cycle_epochs_mult)
NextCycleEpochs(len, m) == IntMul(len, m)

\* epoch_iterations left at the value of the previous shard
RecomputeEpochIterations_Stale(old, len) == old

\* epoch_iterations = ceil(len(train_set) / batch_size)
RecomputeEpochIterations(old, len) == Ceil(len, batch_size)

CycleEpochs == {1, 2, 5}
CycleMults == {<<1, 1>>, <<3, 2>>, <<1, 2>>}

\* torch.save to model-<slot>.pth
WriteSlot(files, slot, c) ==
    [i \in 1..(IF slot + 1 > Len(files) THEN slot + 1 ELSE Len(files)) |->
        IF i = slot + 1 THEN c ELSE IF i <= Len(files) THEN files[i] ELSE NoFile]

\* no shard
NoShard == -1

\* the slot of the first per-cycle file when the output directory is taken
\* to be empty
InitialSlot_Zero(files) == 0

\* ensemble_model_index = max(model_index + 1) over the model-*.pth files of
\* the output directory, 0 without any
InitialSlot(files) == Len(files)

\* only the training split taken from the new shard
ReplaceSplits_TrainOnly(train, val, data) == [train |-> data, val |-> val]

\* train_set.df = train_data.train_set_df; val_set.df = train_data.val_set_df
ReplaceSplits(train, val, data) == [train |-> data, val |-> data]

\* the provider inside main: TrainDataProvider(input_dir, 50, ...) followed by
\* the first train_data_provider.get_next()
\* get_next as the training loop sees it: request_data, pop(0), get()
ProviderGetNext(order, reqs, idx, n) ==
    LET r == RequestData(order, reqs, idx, n)
        p == PopRequest(r.requests)
    IN [data |-> p.head.shard, requests |-> p.rest,
        next_shard_index |-> r.next_shard_index, issued |-> r.issued]

\* --lr_max and --lr_min, on an integer scale that keeps the decayed values whole
lr_max == 65536
lr_min == 1024
\* the scale of the cosine values
CosScale == 1000

LrDecays == {[min |-> <<1, 1>>, max |-> <<1, 1>>], [min |-> <<1, 2>>, max |-> <<3, 4>>]}

RECURSIVE Pow(_, _)
Pow(x, k) == IF k = 0 THEN 1 ELSE x * Pow(x, k - 1)

\* lr * (decay ** sgdr_cycle_count)
Decayed(lr, m, k) == (lr * Pow(m[1], k)) \div Pow(m[2], k)

\* CosScale * cos(pi * n / d) for 0 <= n <= d, exact at n = 0, d / 2 and d
\* (the rational approximation (1 - 4 x^2) / (1 + x^2) on the first quarter)
CosPiQ(n, d) == (CosScale * (d * d - 4 * n * n)) \div (d * d + n * n)
CosPi(n, d) == IF 2 * n <= d THEN CosPiQ(n, d) ELSE 0 - CosPiQ(d - n, d)

\* CosineAnnealingLR.get_lr at position n / d of the cycle:
\* eta_min + (base_lr - eta_min) * (1 + cos(pi * epoch / T_max)) / 2
CosineLr(base, eta, n, d) == eta + ((base - eta) * (CosScale + CosPi(n, d))) \div (2 * CosScale)

Min(a, b) == IF a <= b THEN a ELSE b

\* the position handed to lr_scheduler.step without the clamp to the cycle length
SchedulePosition_NoClamp(len, it, ei) == [n |-> it, d |-> ei]

\* min(current_sgdr_cycle_epochs, sgdr_iterations / epoch_iterations), as n / d
SchedulePosition(len, it, ei) == [n |-> Min(len * ei, it), d |-> ei]

\* lr_scheduler.step(epoch=...) before mini-batch number `it` of the cycle
LrStep(sch, base, len, it, ei) ==
    LET t == SchedulePosition(len, it, ei)
    IN [it |-> it, n |-> t.n, d |-> t.d,
        lr |-> CosineLr(base, sch.eta_min, t.n, t.d * sch.T_max)]

\* the tags the factories know
ModelTags == {"cnn", "resnet"}
OptimizerTags == {"sgd", "adam"}
LossTags == {"cce", "focal"}
NoTag == "none"

\* create_criterion: the criterion of a known tag, an exception otherwise
CreateCriterion(tag) == IF tag \in LossTags THEN tag ELSE "raise"

\* create_model and create_optimizer raise on an unknown tag; so does the
\* create_criterion(loss_type) before the loop
ConstructionFails ==
    \/ model_type \notin ModelTags
    \/ optimizer_type \notin OptimizerTags
    \/ CreateCriterion(loss_type) = "raise"

\* main up to the head of the epoch loop
TrainProviderInit ==
    /\ num_shards = MaxShards
    /\ num_shard_preload \in 0..1
    /\ num_workers = 1
    /\ shards = [i \in 1..num_shards |-> i - 1]
    /\ LET p == Preload(shards, num_shard_preload)
           g == ProviderGetNext(shards, p.requests, p.next_shard_index, p.issued)
       IN /\ requests = g.requests
          /\ next_shard_index = g.next_shard_index
          /\ issued = g.issued
          /\ train_len = TrainSetSize(g.data)
          /\ train_df = g.data
          /\ val_df = g.data
    /\ eval_df = NoShard
    /\ cur = NoReq
    /\ pcP = "idle"
    /\ calls = 1
    /\ returned = <<>>
    /\ finish_order = <<>>

\* the command lines of the runs of SpecTrain: the schedule options vary, the
\* tags are known ones and no second loss is configured
TrainConfig ==
    /\ epochs_to_train \in {2, MaxEpochs}
    /\ lr_scheduler_type \in {"cosine_annealing", "reduce_on_plateau"}
    /\ patience \in {1, 3}
    /\ sgdr_cycle_epochs \in CycleEpochs
    /\ sgdr_cycle_epochs_mult \in CycleMults
    /\ sgdr_cycle_end_prolongation \in 0..1
    /\ sgdr_cycle_end_patience \in 0..2
    /\ max_sgdr_cycles \in {None, 2}
    /\ lr_decay \in LrDecays
    /\ model_type = "cnn"
    /\ optimizer_type = "sgd"
    /\ loss_type = "cce"
    /\ loss2_type = NoTag
    /\ loss2_start_sgdr_cycle = None
    /\ base_model_pth = NoFile
    /\ old_model_files = <<>>

\* the state main reaches at the head of the epoch loop, or the exception a
\* factory raised on the way
TrainStart ==
    /\ model = 0
    /\ model_pth = IF model_type \notin ModelTags THEN base_model_pth
                   ELSE IF base_model_pth # NoFile THEN base_model_pth
                   ELSE Ckpt(0, NegInf)
    /\ model_files = old_model_files
    /\ ensemble_model_index = InitialSlot(old_model_files)
    /\ cycle_best_seen = NegInf
    /\ epoch_iterations = Ceil(train_len, batch_size)
    /\ global_val_mapk_best_avg = NegInf
    /\ sgdr_cycle_val_mapk_best_avg = NegInf
    /\ opt_lr = lr_max
    /\ sched = [T_max |-> sgdr_cycle_epochs, eta_min |-> lr_min]
    /\ lr_trace = <<>>
    /\ current_sgdr_cycle_epochs = sgdr_cycle_epochs
    /\ sgdr_next_cycle_end_epoch = current_sgdr_cycle_epochs + sgdr_cycle_end_prolongation
    /\ sgdr_iterations = 0
    /\ sgdr_cycle_count = 0
    /\ epoch_of_last_improval = 0
    /\ criterion = IF ConstructionFails THEN NoTag ELSE CreateCriterion(loss_type)
    /\ epoch = 0
    /\ val_mapk_avg = NegInf
    /\ sgdr_reset = FALSE
    /\ best_seen = NegInf
    /\ epochs_in_cycle = 0
    /\ pcT = IF ConstructionFails THEN "error" ELSE "train"

TrainInit == TrainProviderInit /\ TrainConfig /\ TrainStart

\* one pass over train_set_data_loader
TrainPass ==
    /\ pcT = "train"
    /\ model' = model + 1
    /\ sgdr_iterations' = sgdr_iterations + Ceil(train_len, batch_size)
    /\ epochs_in_cycle' = epochs_in_cycle + 1
    /\ lr_trace' = IF lr_scheduler_type = "cosine_annealing"
                   THEN [b \in 1..Ceil(train_len, batch_size) |->
                            LrStep(sched, opt_lr, current_sgdr_cycle_epochs,
                                   sgdr_iterations + b - 1, epoch_iterations)]
                   ELSE <<>>
    /\ pcT' = "rotate"
    /\ UNCHANGED <<criterion, opt_lr, sched>>
    /\ UNCHANGED <<pvars, cfgvars, epoch, train_len, epoch_iterations, val_mapk_avg,
                   model_pth, model_files, ensemble_model_index,
                   global_val_mapk_best_avg, sgdr_cycle_val_mapk_best_avg,
                   current_sgdr_cycle_epochs, sgdr_next_cycle_end_epoch,
                   sgdr_cycle_count, epoch_of_last_improval, sgdr_reset, best_seen>>
    /\ UNCHANGED <<cycle_best_seen, dfvars>>
    /\ UNCHANGED xvars

\* train_data = train_data_provider.get_next(); both splits replaced;
\* epoch_iterations recomputed
Rotate ==
    /\ pcT = "rotate"
    /\ LET g == ProviderGetNext(shards, requests, next_shard_index, issued)
       IN /\ requests' = g.requests
          /\ next_shard_index' = g.next_shard_index
          /\ issued' = g.issued
          /\ train_len' = TrainSetSize(g.data)
          /\ train_df' = ReplaceSplits(train_df, val_df, g.data).train
          /\ val_df' = ReplaceSplits(train_df, val_df, g.data).val
          /\ epoch_iterations' = RecomputeEpochIterations(epoch_iterations, TrainSetSize(g.data))
    /\ calls' = calls + 1
    /\ pcT' = "eval"
    /\ UNCHANGED <<num_shards, num_shard_preload, num_workers, shards, cur, pcP,
                   returned, finish_order>>
    /\ UNCHANGED <<cfgvars, epoch, model, val_mapk_avg, model_pth, model_files,
                   ensemble_model_index, global_val_mapk_best_avg,
                   sgdr_cycle_val_mapk_best_avg, current_sgdr_cycle_epochs,
                   sgdr_next_cycle_end_epoch, sgdr_iterations, sgdr_cycle_count,
                   epoch_of_last_improval, sgdr_reset, best_seen, epochs_in_cycle>>
    /\ UNCHANGED <<optvars, cycle_best_seen, eval_df>>
    /\ UNCHANGED xvars

\* model_improved: compared with the best of the cycle instead of the run
ModelImproved_Cycle(val, global_best, cycle_best) == val > cycle_best

\* model_improved: every epoch counts as an improvement
ModelImproved_Always(val, global_best, cycle_best) == TRUE

\* model_improved = val_mapk_avg > global_val_mapk_best_avg
ModelImproved(val, global_best, cycle_best) == val > global_best

\* only the first epoch of a cycle counts as an improvement within the cycle
ModelImprovedWithinSgdrCycle_First(val, cycle_best) == cycle_best = NegInf

\* model_improved_within_sgdr_cycle = val_mapk_avg > sgdr_cycle_val_mapk_best_avg
ModelImprovedWithinSgdrCycle(val, cycle_best) == val > cycle_best

\* evaluate on the validation split, then the two checkpoint decisions
EvalCheckpoint ==
    /\ pcT = "eval"
    /\ \E v \in Scores :
          /\ val_mapk_avg' = v
          /\ best_seen' = IF v > best_seen THEN v ELSE best_seen
          /\ cycle_best_seen' = IF v > cycle_best_seen THEN v ELSE cycle_best_seen
          /\ IF ModelImprovedWithinSgdrCycle(v, sgdr_cycle_val_mapk_best_avg)
             THEN /\ model_files' = WriteSlot(model_files, ensemble_model_index, Ckpt(model, v))
                  /\ sgdr_cycle_val_mapk_best_avg' = v
             ELSE UNCHANGED <<model_files, sgdr_cycle_val_mapk_best_avg>>
          /\ IF ModelImproved(v, global_val_mapk_best_avg, sgdr_cycle_val_mapk_best_avg)
             THEN /\ model_pth' = Ckpt(model, v)
                  /\ global_val_mapk_best_avg' = v
                  /\ epoch_of_last_improval' = epoch
             ELSE UNCHANGED <<model_pth, global_val_mapk_best_avg, epoch_of_last_improval>>
    /\ pcT' = "restart"
    /\ UNCHANGED <<pvars, cfgvars, epoch, model, train_len, epoch_iterations,
                   ensemble_model_index, current_sgdr_cycle_epochs,
                   sgdr_next_cycle_end_epoch, sgdr_iterations, sgdr_cycle_count,
                   sgdr_reset, epochs_in_cycle>>
    /\ eval_df' = val_df
    /\ UNCHANGED <<optvars, train_df, val_df>>
    /\ UNCHANGED xvars

\* the restart test without the cycle-end patience
SgdrCycleEnds_NoPatience(e, next_end, last_improval, cep, prolong) ==
    e + 1 >= next_end

\* the restart test one epoch late
SgdrCycleEnds_Strict(e, next_end, last_improval, cep, prolong) ==
    (e + 1 > next_end) /\ (e - last_improval >= cep)

\* (epoch + 1 >= sgdr_next_cycle_end_epoch) and
\* (epoch - epoch_of_last_improval >= sgdr_cycle_end_patience)
SgdrCycleEnds(e, next_end, last_improval, cep, prolong) ==
    (e + 1 >= next_end) /\ (e - last_improval >= cep)

\* the restart leaving the best score of the cycle as it is
RestartCycleBest_Keep(cycle_best) == cycle_best

\* sgdr_cycle_val_mapk_best_avg = float("-inf")
RestartCycleBest(cycle_best) == NegInf

\* the switch to the second loss at the end of the restart branch:
\* `loss2_type is not None and sgdr_cycle_count >= loss2_start_sgdr_cycle`,
\* where the comparison of an int with None raises
SwitchLoss(crit, l2, start, cnt) ==
    IF l2 = NoTag THEN crit
    ELSE IF start = None THEN "raise"
    ELSE IF cnt >= start THEN CreateCriterion(l2)
    ELSE crit

\* the next cycle end counted from the end the cycle was scheduled to have
NextCycleEnd_FromScheduled(e, old_end, len, prolong) == old_end + len + prolong

\* sgdr_next_cycle_end_epoch = epoch + 1 + current_sgdr_cycle_epochs + sgdr_cycle_end_prolongation
NextCycleEnd(e, old_end, len, prolong) == e + 1 + len + prolong

\* the body of the restart branch
SgdrRestart ==
    /\ pcT = "restart"
    /\ SgdrCycleEnds(epoch, sgdr_next_cycle_end_epoch, epoch_of_last_improval,
                     sgdr_cycle_end_patience, sgdr_cycle_end_prolongation)
    /\ sgdr_iterations' = 0
    /\ current_sgdr_cycle_epochs' = NextCycleEpochs(current_sgdr_cycle_epochs, sgdr_cycle_epochs_mult)
    /\ sgdr_next_cycle_end_epoch' =
          NextCycleEnd(epoch, sgdr_next_cycle_end_epoch,
                       NextCycleEpochs(current_sgdr_cycle_epochs, sgdr_cycle_epochs_mult),
                       sgdr_cycle_end_prolongation)
    /\ ensemble_model_index' = ensemble_model_index + 1
    /\ sgdr_cycle_val_mapk_best_avg' = RestartCycleBest(sgdr_cycle_val_mapk_best_avg)
    /\ sgdr_cycle_count' = sgdr_cycle_count + 1
    /\ sgdr_reset' = TRUE
    /\ epochs_in_cycle' = 0
    /\ LET newlen == NextCycleEpochs(current_sgdr_cycle_epochs, sgdr_cycle_epochs_mult)
           cnt == sgdr_cycle_count + 1
           crit == SwitchLoss(criterion, loss2_type, loss2_start_sgdr_cycle, cnt)
       IN /\ opt_lr' = Decayed(lr_max, lr_decay.max, cnt)
          /\ IF newlen = 0
             THEN \* CosineAnnealingLR(T_max=0) divides by zero
                  /\ pcT' = "error"
                  /\ UNCHANGED <<sched, criterion>>
             ELSE /\ sched' = [T_max |-> newlen, eta_min |-> Decayed(lr_min, lr_decay.min, cnt)]
                  /\ IF crit = "raise"
                     THEN pcT' = "error" /\ UNCHANGED criterion
                     ELSE pcT' = "stop" /\ criterion' = crit
    /\ cycle_best_seen' = NegInf
    /\ UNCHANGED <<lr_trace, dfvars>>
    /\ UNCHANGED <<pvars, cfgvars, epoch, model, train_len, epoch_iterations,
                   val_mapk_avg, model_pth, model_files, global_val_mapk_best_avg,
                   epoch_of_last_improval, best_seen>>
    /\ UNCHANGED xvars

\* sgdr_reset = False and the restart branch not taken
NoRestart ==
    /\ pcT = "restart"
    /\ ~SgdrCycleEnds(epoch, sgdr_next_cycle_end_epoch, epoch_of_last_improval,
                      sgdr_cycle_end_patience, sgdr_cycle_end_prolongation)
    /\ sgdr_reset' = FALSE
    /\ pcT' = "stop"
    /\ UNCHANGED <<pvars, cfgvars, epoch, model, train_len, epoch_iterations,
                   val_mapk_avg, model_pth, model_files, ensemble_model_index,
                   global_val_mapk_best_avg, sgdr_cycle_val_mapk_best_avg,
                   current_sgdr_cycle_epochs, sgdr_next_cycle_end_epoch,
                   sgdr_iterations, sgdr_cycle_count, epoch_of_last_improval,
                   best_seen, epochs_in_cycle>>
    /\ UNCHANGED <<optvars, cycle_best_seen, dfvars>>
    /\ UNCHANGED xvars

\* the patience break taken in any epoch, restart or not
EarlyAbort_NoResetGate ==
    \/ epoch - epoch_of_last_improval >= patience
    \/ /\ max_sgdr_cycles # None
       /\ sgdr_cycle_count >= max_sgdr_cycles

\* the two break conditions at the end of the loop body
EarlyAbort ==
    \/ /\ sgdr_reset \/ lr_scheduler_type = "reduce_on_plateau"
       /\ epoch - epoch_of_last_improval >= patience
    \/ /\ max_sgdr_cycles # None
       /\ sgdr_cycle_count >= max_sgdr_cycles

\* break
StopBreak ==
    /\ pcT = "stop"
    /\ EarlyAbort
    /\ pcT' = "done"
    /\ UNCHANGED <<pvars, cfgvars, epoch, model, train_len, epoch_iterations,
                   val_mapk_avg, model_pth, model_files, ensemble_model_index,
                   global_val_mapk_best_avg, sgdr_cycle_val_mapk_best_avg,
                   current_sgdr_cycle_epochs, sgdr_next_cycle_end_epoch,
                   sgdr_iterations, sgdr_cycle_count, epoch_of_last_improval,
                   sgdr_reset, best_seen, epochs_in_cycle>>
    /\ UNCHANGED <<optvars, cycle_best_seen, dfvars>>
    /\ UNCHANGED xvars

\* next iteration of `for epoch in range(epochs_to_train)`, or its end
NextEpoch ==
    /\ pcT = "stop"
    /\ ~EarlyAbort
    /\ IF epoch + 1 < epochs_to_train
       THEN epoch' = epoch + 1 /\ pcT' = "train"
       ELSE epoch' = epoch /\ pcT' = "done"
    /\ UNCHANGED <<pvars, cfgvars, model, train_len, epoch_iterations,
                   val_mapk_avg, model_pth, model_files, ensemble_model_index,
                   global_val_mapk_best_avg, sgdr_cycle_val_mapk_best_avg,
                   current_sgdr_cycle_epochs, sgdr_next_cycle_end_epoch,
                   sgdr_iterations, sgdr_cycle_count, epoch_of_last_improval,
                   sgdr_reset, best_seen, epochs_in_cycle>>
    /\ UNCHANGED <<optvars, cycle_best_seen, dfvars>>
    /\ UNCHANGED xvars

TrainNext ==
    \/ TrainPass
    \/ Rotate
    \/ EvalCheckpoint
    \/ SgdrRestart
    \/ NoRestart
    \/ StopBreak
    \/ NextEpoch

(* ------------------------- specifications ------------------------------ *)
\* the provider on its own, with the pool processes interleaved
TrainIdle ==
    /\ epochs_to_train = 0
    /\ lr_scheduler_type = "cosine_annealing"
    /\ patience = 0
    /\ sgdr_cycle_epochs = 0
    /\ sgdr_cycle_epochs_mult = <<1, 1>>
    /\ sgdr_cycle_end_prolongation = 0
    /\ sgdr_cycle_end_patience = 0
    /\ max_sgdr_cycles = None
    /\ pcT = "off"
    /\ epoch = 0
    /\ model = 0
    /\ train_len = 0
    /\ epoch_iterations = 0
    /\ val_mapk_avg = NegInf
    /\ model_pth = NoFile
    /\ model_files = <<>>
    /\ ensemble_model_index = 0
    /\ global_val_mapk_best_avg = NegInf
    /\ sgdr_cycle_val_mapk_best_avg = NegInf
    /\ current_sgdr_cycle_epochs = 0
    /\ sgdr_next_cycle_end_epoch = 0
    /\ sgdr_iterations = 0
    /\ sgdr_cycle_count = 0
    /\ epoch_of_last_improval = 0
    /\ sgdr_reset = FALSE
    /\ best_seen = NegInf
    /\ epochs_in_cycle = 0
    /\ lr_decay = [min |-> <<1, 1>>, max |-> <<1, 1>>]
    /\ model_type = NoTag
    /\ optimizer_type = NoTag
    /\ loss_type = NoTag
    /\ loss2_type = NoTag
    /\ loss2_start_sgdr_cycle = None
    /\ criterion = NoTag
    /\ opt_lr = 0
    /\ sched = [T_max |-> 0, eta_min |-> 0]
    /\ lr_trace = <<>>
    /\ base_model_pth = NoFile
    /\ old_model_files = <<>>
    /\ cycle_best_seen = NegInf
    /\ train_df = NoShard
    /\ val_df = NoShard
    /\ eval_df = NoShard

\* no provider constructed
ProviderIdle ==
    /\ num_shards = 0
    /\ num_shard_preload = 0
    /\ num_workers = 0
    /\ shards = <<>>
    /\ next_shard_index = 0
    /\ requests = <<>>
    /\ cur = NoReq
    /\ pcP = "off"
    /\ issued = 0
    /\ calls = 0
    /\ returned = <<>>
    /\ finish_order = <<>>

EnsembleIdle ==
    /\ ensemble_model_count = 0
    /\ candidate_scores = <<>>
    /\ candidates_done = 0
    /\ score_to_model = <<>>

SaveIdle ==
    /\ save_path = "none"
    /\ save_old = NoFile
    /\ save_new = NoFile
    /\ save_disk = NoFile
    /\ save_pc = "off"

LoadIdle ==
    /\ data_category = <<>>
    /\ words_to_exclude = <<>>
    /\ kept_category = <<>>
    /\ train_categories = <<>>
    /\ val_categories = <<>>
    /\ load_pc = "off"

PassIdle ==
    /\ loader_len = 0
    /\ batch_iterations = 0
    /\ pass_no = 0
    /\ next_b = 0
    /\ grad = {}
    /\ steps = <<>>
    /\ zeroed_at = {}
    /\ stepped_at = {}

ImageIdle ==
    /\ image_size = 0
    /\ use_progressive_image_sizes = FALSE
    /\ progressive_image_size_min = 0
    /\ progressive_image_size_step = 0
    /\ progressive_image_epoch_step = 0
    /\ image_epoch = 0
    /\ train_image_size = 0
    /\ val_image_size = 0
    /\ image_pc = "off"

Init == ProviderInit /\ TrainIdle /\ EnsembleIdle /\ SaveIdle /\ LoadIdle /\ PassIdle /\ ImageIdle
Next == ProviderNext
Spec == Init /\ [][Next]_vars

\* the provider over MaxShards shards in a fixed order, where the pool
\* processes keep working and the caller, once inside get_next, goes on as
\* soon as it can
LiveInit ==
    /\ Init
    /\ num_shards = MaxShards
    /\ shards = [i \in 1..num_shards |-> i - 1]
SpecLive ==
    /\ LiveInit /\ [][Next]_vars
    /\ WF_vars(WorkerStart) /\ WF_vars(WorkerFinish)
    /\ WF_vars(GetNextPop) /\ WF_vars(GetNextReturn)

\* the epoch loop of main
SpecTrainInit == TrainInit /\ EnsembleIdle /\ SaveIdle /\ LoadIdle /\ PassIdle /\ ImageIdle
SpecTrain == SpecTrainInit /\ [][TrainNext]_vars

\* the command lines that vary the tags: a short fixed schedule, any
\* combination of known and unknown tags
TagsConfig ==
    /\ epochs_to_train = MaxEpochs
    /\ lr_scheduler_type = "cosine_annealing"
    /\ patience = 1
    /\ sgdr_cycle_epochs \in {1, 2}
    /\ sgdr_cycle_epochs_mult = <<1, 1>>
    /\ sgdr_cycle_end_prolongation = 0
    /\ sgdr_cycle_end_patience = 0
    /\ max_sgdr_cycles = None
    /\ lr_decay = [min |-> <<1, 1>>, max |-> <<1, 1>>]
    /\ model_type \in {"cnn", "bogus"}
    /\ optimizer_type \in {"sgd", "bogus"}
    /\ loss_type \in {"cce", "bogus"}
    /\ loss2_type \in {NoTag, "focal", "bogus"}
    /\ loss2_start_sgdr_cycle \in {None, 1, 2}
    /\ base_model_pth = NoFile
    /\ old_model_files = <<>>

\* the epoch loop of main over the tag combinations
SpecTagsInit ==
    /\ TrainProviderInit /\ TagsConfig /\ TrainStart
    /\ EnsembleIdle /\ SaveIdle /\ LoadIdle /\ PassIdle /\ ImageIdle
SpecTags == SpecTagsInit /\ [][TrainNext]_vars

(* ------------------------- provider properties ------------------------- *)
Last(s) == s[Len(s)]

\* C1: whenever a get_next() call has returned, the number of outstanding
\* (requested, not yet consumed) shard requests equals num_shard_preload.
C1_OutstandingAfterReturn ==
    (pcP = "idle" /\ calls >= 1) => Len(Outstanding) = num_shard_preload

C1_Witness ==
    /\ pcP = "idle"
    /\ calls >= 3
    /\ num_shard_preload = 2
    /\ Len(returned) = calls
    /\ Len(requests) = 2

\* C2 as stated: in every reachable state, also inside get_next(), at most
\* num_shard_preload requests are outstanding.
C2_AtMostPreload == Len(Outstanding) <= num_shard_preload

\* C2 amended: at most num_shard_preload + 1 requests are outstanding; the
\* extra one exists from the request_data() at the start of get_next() until
\* the popped request has been consumed.
C2_AtMostPreloadPlusOne ==
    /\ Len(Outstanding) <= num_shard_preload + 1
    /\ pcP \in {"requested", "waiting"} => Len(Outstanding) = num_shard_preload + 1

C2_Witness ==
    /\ pcP = "requested"
    /\ calls >= 2
    /\ num_shard_preload >= 1
    /\ Len(requests) = num_shard_preload + 1

\* C3: the k-th get_next() returns the data of shard shards[(k-1) mod n] of the
\* order shuffled at construction (0-based index; sequences here are 1-based).
C3_CyclicOrder ==
    \A k \in 1..Len(returned) : returned[k].shard = shards[((k - 1) % num_shards) + 1]

C3_Witness ==
    /\ num_shards = 2
    /\ num_shard_preload = 1
    /\ num_workers = 1
    /\ Len(returned) = 3
    /\ returned[1].shard = shards[1]
    /\ returned[2].shard = shards[2]
    /\ returned[3].shard = shards[1]
    /\ shards[1] # shards[2]

\* C4: with more than one pool process, every return of get_next() hands out
\* the oldest outstanding request, whatever the order the loads ended in.
C4_Fifo ==
    [][(num_workers > 1 /\ Len(returned') = Len(returned) + 1) =>
          \A i \in 1..Len(Outstanding) : Last(returned').id <= Outstanding[i].id]_vars

\* position of a load in the order of completion
FinishPos(id) == CHOOSE i \in 1..Len(finish_order) : finish_order[i] = id

\* a request was returned although a request placed after it ended first
C4_Witness ==
    /\ num_workers > 1
    /\ \E k \in 1..Len(returned) :
          \E i \in 1..Len(finish_order) :
             /\ finish_order[i] > returned[k].id
             /\ i < FinishPos(returned[k].id)

\* C5: a failed load is raised by the get_next() call that dequeues its
\* request (the k-th call dequeues the k-th request), no get_next() returns
\* the result of a failed load, and no request is placed beyond the
\* num_shard_preload + one-per-call of the rotation.
C5_FailureSurfaces ==
    /\ pcP = "raised" => (cur.st = "failed" /\ cur.id = calls)
    /\ cur.st = "failed" => pcP \in {"waiting", "raised"}
    /\ \A k \in 1..Len(returned) : returned[k].st = "done" /\ returned[k].id = k
    /\ issued = num_shard_preload + calls

\* the load failed while its request was still queued behind another one,
\* and the error came out of the later call that dequeued it
C5_Witness ==
    /\ pcP = "raised"
    /\ Len(returned) >= 1
    /\ cur.st = "failed"
    /\ FinishPos(cur.id) < FinishPos(Last(returned).id)

(* ------------------------- training properties ------------------------- *)
AtEpochBoundary == pcT \in {"train", "done"}

\* C6: at every epoch boundary (before the first epoch, between epochs, after
\* the last) model.pth holds the weights of an epoch whose validation score
\* is the highest evaluated so far; before any evaluation it holds the
\* initial weights.
C6_BestEverCheckpoint ==
    AtEpochBoundary =>
        /\ model_pth.s = best_seen
        /\ best_seen = NegInf => model_pth.w = 0
        /\ best_seen # NegInf => model_pth.w \in 1..model

\* a later epoch scored lower than the one in model.pth, after a restart
C6_Witness ==
    /\ AtEpochBoundary
    /\ sgdr_cycle_count >= 1
    /\ val_mapk_avg < best_seen
    /\ model_pth.w < model
    /\ model_pth.s = best_seen

\* C7: the score recorded for the best-ever checkpoint never decreases.
C7_BestScoreMonotone ==
    [][/\ global_val_mapk_best_avg' >= global_val_mapk_best_avg
       /\ model_pth'.s >= model_pth.s]_vars

\* an epoch after a restart scored below the best-ever score
C7_Witness ==
    /\ pcT = "restart"
    /\ sgdr_cycle_count >= 1
    /\ val_mapk_avg < global_val_mapk_best_avg
    /\ sgdr_cycle_val_mapk_best_avg < global_val_mapk_best_avg

\* C8 as stated: the restart fires iff the elapsed epochs of the cycle plus
\* the prolongation have reached the cycle length and the cycle-end patience
\* has passed.
C8_RestartIffProlongedElapsed ==
    [][pcT = "restart" =>
          (sgdr_reset' <=>
              /\ epochs_in_cycle + sgdr_cycle_end_prolongation >= current_sgdr_cycle_epochs
              /\ epoch - epoch_of_last_improval >= sgdr_cycle_end_patience)]_vars

\* C8 amended: the restart fires iff the elapsed epochs of the cycle have
\* reached the cycle length plus the prolongation and the cycle-end patience
\* has passed.
C8_RestartIff ==
    [][pcT = "restart" =>
          (sgdr_reset' <=>
              /\ epochs_in_cycle >= current_sgdr_cycle_epochs + sgdr_cycle_end_prolongation
              /\ epoch - epoch_of_last_improval >= sgdr_cycle_end_patience)]_vars

\* a restart in a prolonged cycle that had to wait for the patience
C8_Witness ==
    /\ pcT = "stop"
    /\ sgdr_reset
    /\ sgdr_cycle_count = 1
    /\ sgdr_cycle_end_prolongation = 1
    /\ sgdr_cycle_end_patience = 2
    /\ epoch + 1 > sgdr_cycle_epochs + sgdr_cycle_end_prolongation

\* the scenario: cycle length 5, cycle-end patience 1, no prolongation, the
\* last improvement in epoch 3 (index 2), seen at the end of an epoch
C9_Scenario ==
    /\ sgdr_cycle_epochs = 5
    /\ sgdr_cycle_end_patience = 1
    /\ sgdr_cycle_end_prolongation = 0
    /\ epoch_of_last_improval = 2
    /\ pcT = "stop"

\* C9 as stated: in the scenario no restart fires at epoch 5 (index 4).
C9_RestartAtEpoch6 == (C9_Scenario /\ epoch = 4) => ~sgdr_reset

\* C9 amended: in the scenario the restart fires at epoch 5 (index 4), the
\* first epoch at which both conditions hold.
C9_RestartAtEpoch5 ==
    (C9_Scenario /\ epoch = 4) =>
        (sgdr_reset /\ sgdr_cycle_count = 1 /\ sgdr_next_cycle_end_epoch > 5)

C9_Witness == C9_Scenario /\ epoch = 4 /\ sgdr_reset

\* C10: a restart adds 1 to sgdr_cycle_count and to ensemble_model_index and
\* sets sgdr_iterations to 0 and sgdr_cycle_val_mapk_best_avg to -inf; any
\* other step leaves the two indices alone and lowers neither the
\* iteration counter nor the best score of the cycle.
C10_RestartEffect ==
    [][IF pcT = "restart" /\ sgdr_reset'
       THEN /\ sgdr_cycle_count' = sgdr_cycle_count + 1
            /\ ensemble_model_index' = ensemble_model_index + 1
            /\ sgdr_iterations' = 0
            /\ sgdr_cycle_val_mapk_best_avg' = NegInf
       ELSE /\ sgdr_cycle_count' = sgdr_cycle_count
            /\ ensemble_model_index' = ensemble_model_index
            /\ sgdr_iterations' >= sgdr_iterations
            /\ sgdr_cycle_val_mapk_best_avg' >= sgdr_cycle_val_mapk_best_avg]_vars

\* the second restart of a run has just happened
C10_Witness ==
    /\ pcT = "stop"
    /\ sgdr_reset
    /\ sgdr_cycle_count = 2
    /\ ensemble_model_index = 2
    /\ sgdr_iterations = 0
    /\ sgdr_cycle_val_mapk_best_avg = NegInf
    /\ global_val_mapk_best_avg > NegInf

\* C11 as stated: on a restart the new cycle length is
\* round(current_sgdr_cycle_epochs * sgdr_cycle_epochs_mult).
C11_NewLengthRounded ==
    [][(pcT = "restart" /\ sgdr_reset') =>
          current_sgdr_cycle_epochs' = RoundMul(current_sgdr_cycle_epochs, sgdr_cycle_epochs_mult)]_vars

\* C11 amended: on a restart the new cycle length is the product truncated to
\* an integer, the largest n with n <= current_sgdr_cycle_epochs * mult.
C11_NewLengthTruncated ==
    [][(pcT = "restart" /\ sgdr_reset') =>
          /\ current_sgdr_cycle_epochs' * sgdr_cycle_epochs_mult[2]
                <= current_sgdr_cycle_epochs * sgdr_cycle_epochs_mult[1]
          /\ (current_sgdr_cycle_epochs' + 1) * sgdr_cycle_epochs_mult[2]
                > current_sgdr_cycle_epochs * sgdr_cycle_epochs_mult[1]]_vars

\* 5 * 1.5 became 7
C11_Witness ==
    /\ sgdr_reset
    /\ sgdr_cycle_count = 1
    /\ sgdr_cycle_epochs = 5
    /\ sgdr_cycle_epochs_mult = <<3, 2>>
    /\ current_sgdr_cycle_epochs = 7

\* the condition of C12 in the words of the claim
C12_AbortCondition ==
    \/ /\ sgdr_reset \/ lr_scheduler_type = "reduce_on_plateau"
       /\ epoch - epoch_of_last_improval >= patience
    \/ /\ max_sgdr_cycles # None
       /\ sgdr_cycle_count >= max_sgdr_cycles

\* C12: at the end of an epoch the loop is left before epochs_to_train epochs
\* are done exactly when a restart just occurred (or reduce_on_plateau is
\* active) and the patience is used up, or max_sgdr_cycles is reached.
C12_EarlyStop ==
    [][pcT = "stop" =>
          /\ C12_AbortCondition => (pcT' = "done" /\ epoch' = epoch)
          /\ (pcT' = "done" /\ epoch + 1 < epochs_to_train) => C12_AbortCondition
          /\ ~C12_AbortCondition /\ epoch + 1 < epochs_to_train =>
                (pcT' = "train" /\ epoch' = epoch + 1)]_vars

\* the loop was left early by the patience test after a restart, and the
\* patience had been used up before without a restart
C12_Witness ==
    /\ pcT = "done"
    /\ lr_scheduler_type = "cosine_annealing"
    /\ max_sgdr_cycles = None
    /\ sgdr_reset
    /\ epoch + 1 < epochs_to_train
    /\ epoch - epoch_of_last_improval > patience

\* C15: at the start of every epoch epoch_iterations is
\* ceil(len(train_set) / batch_size) for the split the pass iterates over.
C15_EpochIterations ==
    pcT = "train" =>
        /\ (epoch_iterations - 1) * batch_size < train_len
        /\ train_len <= epoch_iterations * batch_size

\* a rotation changed the number of iterations
C15_Witness ==
    /\ pcT = "train"
    /\ epoch >= 1
    /\ train_len = 3
    /\ epoch_iterations = 2

\* the learning-rate bounds of the current cycle
CycleLrMax == Decayed(lr_max, lr_decay.max, sgdr_cycle_count)
CycleLrMin == Decayed(lr_min, lr_decay.min, sgdr_cycle_count)

\* C16: under the cosine schedule, the learning rate set before the first
\* mini-batch of a cycle (sgdr_iterations = 0) is the lr_max of that cycle, and
\* the one set at a position sgdr_iterations / epoch_iterations at or beyond
\* the cycle length is the lr_min of that cycle.
C16_BoundaryLearningRates ==
    (pcT = "rotate" /\ lr_scheduler_type = "cosine_annealing") =>
        /\ Len(lr_trace) >= 1
        /\ \A b \in 1..Len(lr_trace) :
              /\ lr_trace[b].it = 0 => lr_trace[b].lr = CycleLrMax
              /\ lr_trace[b].it >= current_sgdr_cycle_epochs * epoch_iterations =>
                    lr_trace[b].lr = CycleLrMin

\* a pass of a later cycle that ran beyond the cycle length, with decayed bounds
C16_Witness ==
    /\ pcT = "rotate"
    /\ lr_scheduler_type = "cosine_annealing"
    /\ sgdr_cycle_count >= 1
    /\ lr_decay.min # <<1, 1>>
    /\ epochs_in_cycle > current_sgdr_cycle_epochs
    /\ \E b \in 1..Len(lr_trace) :
          /\ lr_trace[b].it > current_sgdr_cycle_epochs * epoch_iterations
          /\ lr_trace[b].lr = CycleLrMin
          /\ lr_trace[b].lr < lr_min

(* ------------------ runs in a directory that has files ------------------ *)
MaxOldFiles == 2

\* a per-cycle file written by an earlier run
OldCkpt == Ckpt(0, 0)

\* the model-<i>.pth files found by the glob: slots 0..N, the last one present
OldModelFiles ==
    {f \in UNION {[1..n -> {NoFile, OldCkpt}] : n \in 0..MaxOldFiles} :
        Len(f) > 0 => f[Len(f)] # NoFile}

\* the command lines of the resumed runs: a short schedule with known tags,
\* with or without --base_model_dir, over any set of earlier per-cycle files
ResumeConfig ==
    /\ epochs_to_train = MaxEpochs
    /\ lr_scheduler_type = "cosine_annealing"
    /\ patience = 3
    /\ sgdr_cycle_epochs \in {1, 2}
    /\ sgdr_cycle_epochs_mult = <<1, 1>>
    /\ sgdr_cycle_end_prolongation = 0
    /\ sgdr_cycle_end_patience \in 0..1
    /\ max_sgdr_cycles = None
    /\ lr_decay = [min |-> <<1, 1>>, max |-> <<1, 1>>]
    /\ model_type = "cnn"
    /\ optimizer_type = "sgd"
    /\ loss_type = "cce"
    /\ loss2_type = NoTag
    /\ loss2_start_sgdr_cycle = None
    /\ base_model_pth \in {NoFile} \cup {Ckpt(0, sc) : sc \in Scores}
    /\ old_model_files \in OldModelFiles

\* the epoch loop of main in such a directory
SpecResumeInit ==
    /\ TrainProviderInit /\ ResumeConfig /\ TrainStart
    /\ EnsembleIdle /\ SaveIdle /\ LoadIdle /\ PassIdle /\ ImageIdle
SpecResume == SpecResumeInit /\ [][TrainNext]_vars

(* ---------------------- load_ensemble_model ----------------------------- *)
MaxCandidates == 5
MaxEnsemble == 3

\* validation scores in tenths
EnsScores == {1, 3, 4, 5, 9}

\* min(score_to_model.keys())
MinKey(d) == CHOOSE k \in DOMAIN d : \A j \in DOMAIN d : k <= j

\* del score_to_model[k]
DictDel(d, k) == [j \in (DOMAIN d) \ {k} |-> d[j]]

\* score_to_model[k] = m
DictSet(d, k, m) == [j \in (DOMAIN d) \cup {k} |-> IF j = k THEN m ELSE d[j]]

\* the body of the loop over the candidates after the evaluation: the
\* candidate m with score val enters when there is room or when it beats the
\* minimum key, which is deleted when the dict is full
Retain(d, count, val, m) ==
    IF Cardinality(DOMAIN d) < count \/ MinKey(d) < val
    THEN DictSet(IF Cardinality(DOMAIN d) >= count THEN DictDel(d, MinKey(d)) ELSE d, val, m)
    ELSE d

\* the candidates are the last 2 * ensemble_model_count checkpoint files and
\* the SWA model when it exists
EnsembleInit ==
    /\ ensemble_model_count \in 1..MaxEnsemble
    /\ candidate_scores \in UNION {[1..n -> EnsScores] : n \in 0..MaxCandidates}
    /\ Len(candidate_scores) <= 2 * ensemble_model_count + 1
    /\ candidates_done = 0
    /\ score_to_model = <<>>

\* one iteration of the loop over ensemble_model_candidates
ProcessCandidate ==
    /\ candidates_done < Len(candidate_scores)
    /\ candidates_done' = candidates_done + 1
    /\ score_to_model' = Retain(score_to_model, ensemble_model_count,
                                candidate_scores[candidates_done + 1], candidates_done + 1)
    /\ UNCHANGED <<ensemble_model_count, candidate_scores>>
    /\ UNCHANGED <<pvars, tvars, svars, fvars, gvars>>
    /\ UNCHANGED ivars

EnsembleNext == ProcessCandidate

SpecEnsembleInit ==
    /\ ProviderIdle /\ TrainIdle /\ EnsembleInit /\ SaveIdle /\ LoadIdle /\ PassIdle /\ ImageIdle
SpecEnsemble == SpecEnsembleInit /\ [][EnsembleNext]_vars

(* -------------------- torch.save of a checkpoint ------------------------ *)
\* a file that was opened for writing and not written to the end
Partial == [w |-> -2, s |-> NegInf]

CkptPaths == {"model.pth", "model-0.pth"}

\* the call torch.save(model.state_dict(), path): the file at the path holds
\* nothing or an earlier checkpoint
SaveInit ==
    /\ save_path \in CkptPaths
    /\ save_old \in {NoFile} \cup {Ckpt(w, s) : w \in 0..2, s \in Scores}
    /\ save_new \in {Ckpt(w, s) : w \in 1..3, s \in Scores}
    /\ save_disk = save_old
    /\ save_pc = "call"

\* torch.save opens the path itself for writing, which truncates it
SaveOpen ==
    /\ save_pc = "call"
    /\ save_disk' = Partial
    /\ save_pc' = "writing"
    /\ UNCHANGED <<save_path, save_old, save_new>>
    /\ UNCHANGED <<pvars, tvars, evars, fvars, gvars>>
    /\ UNCHANGED ivars

\* the serialised state dict is written to the end and the file closed
SaveWrite ==
    /\ save_pc = "writing"
    /\ save_disk' = save_new
    /\ save_pc' = "done"
    /\ UNCHANGED <<save_path, save_old, save_new>>
    /\ UNCHANGED <<pvars, tvars, evars, fvars, gvars>>
    /\ UNCHANGED ivars

\* the process is aborted inside torch.save
SaveAbort ==
    /\ save_pc = "writing"
    /\ save_pc' = "aborted"
    /\ UNCHANGED <<save_path, save_old, save_new, save_disk>>
    /\ UNCHANGED <<pvars, tvars, evars, fvars, gvars>>
    /\ UNCHANGED ivars

SaveNext == SaveOpen \/ SaveWrite \/ SaveAbort

SpecSaveInit ==
    /\ ProviderIdle /\ TrainIdle /\ EnsembleIdle /\ SaveInit /\ LoadIdle /\ PassIdle /\ ImageIdle
SpecSave == SpecSaveInit /\ [][SaveNext]_vars

(* ---------------- TrainData.__init__: category exclusion ---------------- *)
MaxRecords == 3
MaxExclude == 2

\* read_categories(categories.txt): category id i is CategoryNames[i + 1]
CategoryNames == <<"a", "b", "c">>
CategoryIds == 0..(Len(CategoryNames) - 1)

\* list.index(w): the first position of w, counted from 0
Index(list, w) ==
    (CHOOSE i \in 1..Len(list) : list[i] = w /\ \A j \in 1..(i - 1) : list[j] # w) - 1

\* categories_to_exclude = [words_to_exclude.index(w) for w in words_to_exclude]
CategoriesToExclude(words) == {Index(words, words[i]) : i \in 1..Len(words)}

\* data_category[category_filter] with
\* category_filter = [dc not in categories_to_exclude for dc in data_category]
ExcludeFilter(data, words) ==
    LET keep(dc) == dc \notin CategoriesToExclude(words)
    IN SelectSeq(data, keep)

\* the rows of seq whose position is (is not) in the set picked
RECURSIVE Rows(_, _, _, _)
Rows(seq, picked, in, i) ==
    IF i > Len(seq) THEN <<>>
    ELSE (IF (i \in picked) = in THEN <<seq[i]>> ELSE <<>>) \o Rows(seq, picked, in, i + 1)

\* the shard as read from the file and the exclusion list
LoadInit ==
    /\ data_category \in UNION {[1..n -> CategoryIds] : n \in 0..MaxRecords}
    /\ words_to_exclude \in UNION {[1..n -> Range(CategoryNames)] : n \in 0..MaxExclude}
    /\ kept_category = <<>>
    /\ train_categories = <<>>
    /\ val_categories = <<>>
    /\ load_pc = "init"

\* the exclusion filter followed by train_test_split, which puts every
\* remaining row into one of the two splits
LoadShard ==
    /\ load_pc = "init"
    /\ LET kept == ExcludeFilter(data_category, words_to_exclude)
       IN /\ kept # <<>>
          /\ kept_category' = kept
          /\ \E picked \in SUBSET (1..Len(kept)) :
                /\ val_categories' = Rows(kept, picked, TRUE, 1)
                /\ train_categories' = Rows(kept, picked, FALSE, 1)
    /\ load_pc' = "done"
    /\ UNCHANGED <<data_category, words_to_exclude>>
    /\ UNCHANGED <<pvars, tvars, evars, svars, gvars>>
    /\ UNCHANGED ivars

\* train_test_split raises when no row is left
LoadShardFails ==
    /\ load_pc = "init"
    /\ ExcludeFilter(data_category, words_to_exclude) = <<>>
    /\ load_pc' = "error"
    /\ UNCHANGED <<data_category, words_to_exclude, kept_category, train_categories, val_categories>>
    /\ UNCHANGED <<pvars, tvars, evars, svars, gvars>>
    /\ UNCHANGED ivars

LoadNext == LoadShard \/ LoadShardFails

SpecLoadInit ==
    /\ ProviderIdle /\ TrainIdle /\ EnsembleIdle /\ SaveIdle /\ LoadInit /\ PassIdle /\ ImageIdle
SpecLoad == SpecLoadInit /\ [][LoadNext]_vars

(* ------------- the mini-batch loop: gradient accumulation --------------- *)
MaxBatches == 5
MaxAccum == 3
MaxPasses == 3

\* optimizer.zero_grad() only before the first mini-batch of a pass
ZeroGradAt_PassStart(i, bi) == i = 0

\* `if b % batch_iterations == 0: optimizer.zero_grad()`
ZeroGradAt(i, bi) == i % bi = 0

\* `if (b + 1) % batch_iterations == 0 or (b + 1) == len(train_set_data_loader)`
StepAt(i, bi, n) == (i + 1) % bi = 0 \/ (i + 1) = n

\* the head of the first training pass
PassInit ==
    /\ loader_len \in 1..MaxBatches
    /\ batch_iterations \in 1..MaxAccum
    /\ pass_no = 0
    /\ next_b = 0
    /\ grad = {}
    /\ steps = <<>>
    /\ zeroed_at = {}
    /\ stepped_at = {}

\* the body of the loop for mini-batch b: zero_grad, backward (which adds the
\* gradient of the mini-batch to .grad), optimizer.step
TrainBatch ==
    /\ next_b < loader_len
    /\ LET id == <<pass_no, next_b>>
           zero == ZeroGradAt(next_b, batch_iterations)
           step == StepAt(next_b, batch_iterations, loader_len)
           g == (IF zero THEN {} ELSE grad) \cup {id}
       IN /\ grad' = g
          /\ zeroed_at' = IF zero THEN zeroed_at \cup {id} ELSE zeroed_at
          /\ steps' = IF step THEN Append(steps, g) ELSE steps
          /\ stepped_at' = IF step THEN stepped_at \cup {id} ELSE stepped_at
    /\ next_b' = next_b + 1
    /\ UNCHANGED <<loader_len, batch_iterations, pass_no>>
    /\ UNCHANGED <<pvars, tvars, evars, svars, fvars>>
    /\ UNCHANGED ivars

\* the loop is exhausted and the next epoch enumerates the loader again; the
\* gradients stay in .grad
NextPass ==
    /\ next_b = loader_len
    /\ pass_no < MaxPasses - 1
    /\ pass_no' = pass_no + 1
    /\ next_b' = 0
    /\ UNCHANGED <<loader_len, batch_iterations, grad, steps, zeroed_at, stepped_at>>
    /\ UNCHANGED <<pvars, tvars, evars, svars, fvars>>
    /\ UNCHANGED ivars

PassNext == TrainBatch \/ NextPass

SpecPassInit ==
    /\ ProviderIdle /\ TrainIdle /\ EnsembleIdle /\ SaveIdle /\ LoadIdle /\ PassInit /\ ImageIdle
SpecPass == SpecPassInit /\ [][PassNext]_vars

(* ---------------- the epoch loop: progressive image size ---------------- *)
MaxImageSize == 5
MaxImageEpochs == 6

\* list(range(lo, hi + 1, step)) for step >= 1
ProgressiveImageSizes(lo, hi, step) ==
    [i \in 1..(IF lo > hi THEN 0 ELSE (hi - lo) \div step + 1) |-> lo + (i - 1) * step]

\* main up to the head of the epoch loop: both datasets are built with
\* image_size
ImageInit ==
    /\ image_size \in 1..MaxImageSize
    /\ use_progressive_image_sizes \in BOOLEAN
    /\ progressive_image_size_min \in 1..MaxImageSize
    /\ progressive_image_size_step \in 1..2
    /\ progressive_image_epoch_step \in 1..2
    /\ image_epoch = 0
    /\ train_image_size = image_size
    /\ val_image_size = image_size
    /\ image_pc = "head"

\* the head of the loop body: the size of this epoch is looked up and set on
\* both datasets when it differs from the one the training set has
SetImageSize ==
    /\ image_pc = "head"
    /\ LET sizes == ProgressiveImageSizes(progressive_image_size_min, image_size,
                                          progressive_image_size_step)
           idx == Min(image_epoch \div progressive_image_epoch_step, Len(sizes) - 1)
       IN IF ~use_progressive_image_sizes
          THEN image_pc' = "body" /\ UNCHANGED <<train_image_size, val_image_size>>
          ELSE IF Len(sizes) = 0
          THEN \* index -1 of an empty list: IndexError
               image_pc' = "error" /\ UNCHANGED <<train_image_size, val_image_size>>
          ELSE /\ image_pc' = "body"
               /\ IF train_image_size # sizes[idx + 1]
                  THEN /\ train_image_size' = sizes[idx + 1]
                       /\ val_image_size' = sizes[idx + 1]
                  ELSE UNCHANGED <<train_image_size, val_image_size>>
    /\ UNCHANGED <<image_size, use_progressive_image_sizes, progressive_image_size_min,
                   progressive_image_size_step, progressive_image_epoch_step, image_epoch>>
    /\ UNCHANGED <<pvars, tvars, evars, svars, fvars, gvars>>

\* the rest of the loop body and the next iteration
NextImageEpoch ==
    /\ image_pc = "body"
    /\ image_epoch + 1 < MaxImageEpochs
    /\ image_epoch' = image_epoch + 1
    /\ image_pc' = "head"
    /\ UNCHANGED <<image_size, use_progressive_image_sizes, progressive_image_size_min,
                   progressive_image_size_step, progressive_image_epoch_step,
                   train_image_size, val_image_size>>
    /\ UNCHANGED <<pvars, tvars, evars, svars, fvars, gvars>>

ImageNext == SetImageSize \/ NextImageEpoch

SpecImageInit ==
    /\ ProviderIdle /\ TrainIdle /\ EnsembleIdle /\ SaveIdle /\ LoadIdle /\ PassIdle
    /\ ImageInit
SpecImage == SpecImageInit /\ [][ImageNext]_vars

(* ============================ the claims, continued ==================== *)

\* some configured tag is not one the factories know
UnknownTag ==
    \/ model_type \notin ModelTags
    \/ optimizer_type \notin OptimizerTags
    \/ loss_type \notin LossTags
    \/ loss2_type \notin LossTags \cup {NoTag}

\* C17: a run configured with an unknown model, loss (primary or secondary) or
\* optimizer tag never executes a training pass, and the loss in use is always
\* a configured one.
C17_FailFast ==
    /\ UnknownTag => model = 0
    /\ criterion \in {NoTag, loss_type, loss2_type}

\* the scores of the candidates processed so far
SeenScores == {candidate_scores[i] : i \in 1..candidates_done}

\* how many processed candidates score above v
NumAbove(v) == Cardinality({i \in 1..candidates_done : candidate_scores[i] > v})

\* the scores found among the ensemble_model_count highest candidates seen
HighestScores == {v \in SeenScores : NumAbove(v) < ensemble_model_count}

\* C13: after processing any sequence of candidate scores the ensemble
\* retains at most K members and the retained scores are exactly the K
\* highest of the candidates seen.
C13_RetainsHighest ==
    /\ Cardinality(DOMAIN score_to_model) <= ensemble_model_count
    /\ DOMAIN score_to_model = HighestScores

\* C14: after every candidate the ensemble holds exactly
\* min(candidates processed, K) members, equal scores included.
C14_ExactCount ==
    Cardinality(DOMAIN score_to_model) = Min(candidates_done, ensemble_model_count)

\* the sequences without equal scores, where both statements hold
DistinctScores ==
    \A i, j \in 1..Len(candidate_scores) :
        candidate_scores[i] = candidate_scores[j] => i = j

EnsembleDistinct == DistinctScores => (C13_RetainsHighest /\ C14_ExactCount)

\* the example of the contract: [0.1, 0.5, 0.3, 0.9, 0.4] with K = 3
EnsembleExample ==
    (candidate_scores = <<1, 5, 3, 9, 4>> /\ ensemble_model_count = 3 /\ candidates_done = 5)
        => DOMAIN score_to_model = {5, 9, 4}

\* C18: at no point, an abort in the middle of a checkpoint write included,
\* is model.pth or model-<i>.pth partially written or the previously complete
\* checkpoint lost: the file holds the old or the new checkpoint, whole.
C18_AtomicCheckpoint ==
    save_pc # "off" => save_disk \in {save_old, save_new}

\* the records whose category name is not in the exclusion list
NotExcluded(data, words) ==
    LET keep(dc) == CategoryNames[dc + 1] \notin Range(words)
    IN SelectSeq(data, keep)

\* C19: the load procedure drops exactly the records whose category is in the
\* exclusion list and keeps every other record with its category id
\* unchanged, in both splits.
C19_ExclusionByCategory ==
    load_pc = "done" =>
        /\ kept_category = NotExcluded(data_category, words_to_exclude)
        /\ \A dc \in Range(train_categories) \cup Range(val_categories) :
              CategoryNames[dc + 1] \notin Range(words_to_exclude)

\* what the filter does drop: the ids below the length of the exclusion list
LoadDropsLeadingIds ==
    load_pc = "done" =>
        LET keep(dc) == dc >= Cardinality(Range(words_to_exclude))
        IN kept_category = SelectSeq(data_category, keep)

\* the mini-batches processed so far, as <<pass, index>>
Processed ==
    {<<p, i>> : p \in 0..(pass_no - 1), i \in 0..(loader_len - 1)}
        \cup {<<pass_no, i>> : i \in 0..(next_b - 1)}

\* the accumulation group of a mini-batch
Group(id) == <<id[1], id[2] \div batch_iterations>>

\* the last mini-batch of the group of id
GroupEnd(id) ==
    Min((id[2] \div batch_iterations) * batch_iterations + batch_iterations, loader_len) - 1

NoLoadFailed == \A i \in 1..Len(Outstanding) : Outstanding[i].st # "failed"

C21_PerCycleCheckpoint ==
    [][/\ pcT' = "restart" =>
            /\ Len(model_files') >= ensemble_model_index' + 1
            /\ model_files'[ensemble_model_index' + 1].s = cycle_best_seen'
            /\ model_files'[ensemble_model_index' + 1].w > model' - epochs_in_cycle'
            /\ model_files'[ensemble_model_index' + 1].w <= model'
       /\ \A i \in 1..Len(model_files) :
             i <= ensemble_model_index => model_files'[i] = model_files[i]]_vars

C21_Witness ==
    /\ pcT = "restart"
    /\ sgdr_cycle_count >= 1
    /\ epochs_in_cycle >= 2
    /\ Len(model_files) = ensemble_model_index + 1
    /\ model_files[ensemble_model_index + 1].w < model
    /\ val_mapk_avg < cycle_best_seen
    /\ model_files[1].s > cycle_best_seen

\* C22: one get_next() per epoch, between the training pass and the
\* evaluation; both splits are replaced together by the shard it returns and
\* at no other point; the evaluation runs on the new shard.
C22_RotationPerEpoch ==
    [][/\ (train_df' # train_df \/ val_df' # val_df \/ calls' # calls) =>
            /\ pcT = "rotate" /\ pcT' = "eval"
            /\ calls' = calls + 1
            /\ train_df' = shards[((calls' - 1) % num_shards) + 1]
            /\ val_df' = train_df'
       /\ pcT' = "restart" =>
            /\ calls' = epoch' + 2
            /\ eval_df' = shards[((calls' - 1) % num_shards) + 1]
            /\ val_df' = eval_df' /\ train_df' = eval_df']_vars

C22_Witness ==
    /\ pcT = "restart"
    /\ epoch = 2
    /\ calls = 4
    /\ eval_df = shards[1]
    /\ train_df = eval_df /\ val_df = eval_df

\* position a of the schedule is not after position b
PosLeq(a, b) == a.n * b.d <= b.n * a.d

\* C28: within one cycle the schedule position is non-decreasing from one
\* mini-batch to the next, across shard rotations too, and the learning rate
\* never increases.
C28_PositionNonDecreasing ==
    [][(pcT = "train" /\ pcT' = "rotate" /\ lr_scheduler_type = "cosine_annealing") =>
          /\ \A i \in 1..(Len(lr_trace') - 1) :
                /\ PosLeq(lr_trace'[i], lr_trace'[i + 1])
                /\ lr_trace'[i + 1].lr <= lr_trace'[i].lr
          /\ (epochs_in_cycle > 0 /\ lr_trace # <<>>) =>
                /\ PosLeq(Last(lr_trace), lr_trace'[1])
                /\ lr_trace'[1].lr <= Last(lr_trace).lr]_vars

\* the same within one training pass, where epoch_iterations does not change
PositionNonDecreasingInPass ==
    \A i \in 1..(Len(lr_trace) - 1) :
        /\ PosLeq(lr_trace[i], lr_trace[i + 1])
        /\ lr_trace[i + 1].lr <= lr_trace[i].lr

\* C29: after any number of restarts with any positive multiplier the current
\* cycle length is an integer >= 1.
C29_CycleLengthPositive ==
    pcT # "off" => current_sgdr_cycle_epochs >= 1

\* C30: every cycle lasts at least cycle_length + prolongation epochs: that
\* many epochs were run since the start of training or the last restart when
\* a restart happens.
C30_CycleLasts ==
    [][sgdr_cycle_count' = sgdr_cycle_count + 1 =>
          epochs_in_cycle >= current_sgdr_cycle_epochs + sgdr_cycle_end_prolongation]_vars

C30_Witness ==
    /\ pcT = "restart"
    /\ sgdr_cycle_count = 1
    /\ sgdr_cycle_epochs_mult = <<1, 1>>
    /\ sgdr_cycle_end_patience >= 1
    /\ epochs_in_cycle = current_sgdr_cycle_epochs + sgdr_cycle_end_prolongation
    /\ epoch + 1 > 2 * (current_sgdr_cycle_epochs + sgdr_cycle_end_prolongation)
    /\ SgdrCycleEnds(epoch, sgdr_next_cycle_end_epoch, epoch_of_last_improval,
                     sgdr_cycle_end_patience, sgdr_cycle_end_prolongation)

\* the loss an epoch has to use: the secondary one once a restart has brought
\* the cycle count to the configured start cycle
LossOfCycle ==
    IF /\ loss2_start_sgdr_cycle # None
       /\ sgdr_cycle_count >= 1
       /\ sgdr_cycle_count >= loss2_start_sgdr_cycle
    THEN loss2_type ELSE loss_type

\* C25: with a secondary loss configured every epoch before the start cycle
\* uses the primary loss, every epoch after a restart that reached it uses the
\* secondary loss, and no restart raises an error.
C25_SecondaryLoss ==
    (loss2_type \in LossTags /\ ~ConstructionFails) =>
        /\ pcT # "error"
        /\ pcT = "train" => criterion = LossOfCycle

\* the same for the runs that also configure the start cycle
SecondaryLossWithStart ==
    loss2_start_sgdr_cycle # None => C25_SecondaryLoss

\* C26: in a run resumed from a base model directory model.pth is never
\* replaced by the weights of an epoch that scored lower than the resumed
\* checkpoint.
C26_NoRegressionOnResume ==
    base_model_pth # NoFile => model_pth.s >= base_model_pth.s

\* C27: in a directory that holds model-0.pth .. model-N.pth before the loop
\* none of these files is overwritten: the slot starts after them and only
\* increases.
C27_OldFilesKept ==
    [][/\ ensemble_model_index >= Len(old_model_files)
       /\ ensemble_model_index' >= ensemble_model_index
       /\ \A i \in 1..Len(old_model_files) :
             /\ model_files[i] = old_model_files[i]
             /\ model_files'[i] = old_model_files[i]]_vars

C27_Witness ==
    /\ Len(old_model_files) = MaxOldFiles
    /\ Len(model_files) >= MaxOldFiles + 2
    /\ model_files[MaxOldFiles + 1] # NoFile
    /\ model_files[MaxOldFiles + 2] # NoFile
    /\ model_files[MaxOldFiles] = OldCkpt
    /\ pcT = "done"

\* progressive_image_size_min + step * floor(e / N), capped at the maximum
CappedImageSize(e) ==
    Min(progressive_image_size_min
            + progressive_image_size_step * (e \div progressive_image_epoch_step),
        image_size)

\* C24: with progressive resolution enabled (minimum not above the maximum)
\* the resolution of epoch e is
\* progressive_image_size_min + step * floor(e / N) capped at the configured
\* maximum, which it equals for all large e, and both splits use it.
C24_ProgressiveImageSize ==
    (use_progressive_image_sizes /\ progressive_image_size_min <= image_size) =>
        /\ image_pc # "error"
        /\ image_pc = "body" =>
              /\ train_image_size = CappedImageSize(image_epoch)
              /\ val_image_size = train_image_size

\* the resolution the loop does use: the largest value of the list
\* min, min + step, ... that is not above the maximum and not beyond epoch e
ImageSizeOnGrid ==
    (use_progressive_image_sizes /\ image_pc = "body") =>
        /\ val_image_size = train_image_size
        /\ train_image_size <= image_size
        /\ train_image_size = progressive_image_size_min + progressive_image_size_step *
              Min(image_epoch \div progressive_image_epoch_step,
                  (image_size - progressive_image_size_min) \div progressive_image_size_step)
====
